---- MODULE Spec2Model ----
(***************************************************************************)
(* Model of src/Main.py: the transaction ledger of the finance dashboard.  *)
(* CSV ingestion (parse_csv), identity (generate_transaction_id),          *)
(* categorization (categorize_transaction), the deduplicating import of    *)
(* the "Import CSV" page, persistence (save_/load_transactions, rules) and *)
(* the aggregator (calculate_stats).                                       *)
(*                                                                         *)
(* Encoding.  Text is a TLA+ string.  A pandas cell is NaN (the empty      *)
(* tuple) or <<v>>, v a string (text cells) or an integer number of cents  *)
(* (amount cells).  sha256 is taken to be injective: a transaction id is   *)
(* the string that is hashed.                                              *)
(***************************************************************************)
EXTENDS Integers, Sequences, FiniteSets, TLC

\* ------------------------------------------------------------------------
\* Bounds of the model
\* ------------------------------------------------------------------------
MaxLedger == 3
MaxBatch == 2
MaxRules == 2
MaxStatRows == 3
MaxBudgets == 2

\* ------------------------------------------------------------------------
\* Text helpers (Python str operations)
\* ------------------------------------------------------------------------
NaN == <<>>

Some(v) == <<v>>

\* str(x) of a text cell: str(float('nan')) is "nan"
Str(c) == IF c = NaN THEN "nan" ELSE c[1]

Range(s) == {s[i] : i \in DOMAIN s}

Char(s, i) == SubSeq(s, i, i)

\* k in t  (Python substring test)
Contains(k, t) == \E i \in 1..(Len(t) - Len(k) + 1) : SubSeq(t, i, i + Len(k) - 1) = k

UpperChars == "ABCDEFGHIJKLMNOPQRSTUVWXYZÉ"

LowerChars == "abcdefghijklmnopqrstuvwxyzé"

LowerChar(c) ==
    IF \E i \in 1..Len(UpperChars) : Char(UpperChars, i) = c
    THEN Char(LowerChars, CHOOSE i \in 1..Len(UpperChars) : Char(UpperChars, i) = c)
    ELSE c

RECURSIVE Lower(_)
Lower(s) == IF Len(s) = 0 THEN "" ELSE LowerChar(Char(s, 1)) \o Lower(SubSeq(s, 2, Len(s)))

RECURSIVE Replace(_, _, _)
\* s.replace(c, r) for a one-character c
Replace(s, c, r) ==
    IF Len(s) = 0 THEN ""
    ELSE (IF Char(s, 1) = c THEN r ELSE Char(s, 1)) \o Replace(SubSeq(s, 2, Len(s)), c, r)

RECURSIVE LStrip(_)
LStrip(s) == IF Len(s) > 0 /\ Char(s, 1) = " " THEN LStrip(SubSeq(s, 2, Len(s))) ELSE s

RECURSIVE RStrip(_)
RStrip(s) == IF Len(s) > 0 /\ Char(s, Len(s)) = " " THEN RStrip(SubSeq(s, 1, Len(s) - 1)) ELSE s

\* s.strip()
Strip(s) == RStrip(LStrip(s))

Digits == "0123456789"

IsDigit(c) == \E i \in 1..10 : Char(Digits, i) = c

DigitVal(c) == (CHOOSE i \in 1..10 : Char(Digits, i) = c) - 1

IsDigits(s) == Len(s) > 0 /\ \A i \in 1..Len(s) : IsDigit(Char(s, i))

RECURSIVE ParseNat(_)
ParseNat(s) == IF Len(s) = 0 THEN 0 ELSE ParseNat(SubSeq(s, 1, Len(s) - 1)) * 10 + DigitVal(Char(s, Len(s)))

RECURSIVE Sum(_)
Sum(s) == IF s = <<>> THEN 0 ELSE Head(s) + Sum(Tail(s))

Abs(n) == IF n < 0 THEN -n ELSE n

\* ------------------------------------------------------------------------
\* Inputs
\* ------------------------------------------------------------------------
Carrefour == [dateOp |-> "2024-03-05", label |-> "Carrefour ab", amount |-> "-50", supplierFound |-> ""]

Livret ==
    [dateOp |-> "2024-03-10", label |-> "VIR Virement depuis Livret A", amount |-> "-1 200,00",
     supplierFound |-> ""]

Salaire == [dateOp |-> "2024-04-15", label |-> "Salaire", amount |-> "abc", supplierFound |-> ""]

RawRows == {Carrefour, Livret, Salaire}

PlainHeader == <<"dateOp", "label", "amount">>

SupplierHeader == <<"dateOp", "label", " amount ", "supplierFound">>

Headers == {PlainHeader, SupplierHeader}

BadHeader == <<"dateOp", "label">>

CsvFile(h, r) == [readable |-> TRUE, columns |-> h, rows |-> r]

\* a file pd.read_csv cannot read (no content)
UnreadableFile == [readable |-> FALSE, columns |-> <<>>, rows |-> <<>>]

SeqsUpTo(S, n) == UNION {[1..k -> S] : k \in 0..n}

\* every well-formed file of at most MaxBatch lines
Batches == {CsvFile(h, r) : h \in Headers, r \in SeqsUpTo(RawRows, MaxBatch)}

\* the files the user uploads
Uploads ==
    { CsvFile(PlainHeader, <<Carrefour>>),
      CsvFile(SupplierHeader, <<Carrefour>>),
      CsvFile(PlainHeader, <<Carrefour, Carrefour>>),
      CsvFile(PlainHeader, <<Salaire, Livret>>),
      CsvFile(PlainHeader, <<Livret, Carrefour>>),
      CsvFile(PlainHeader, <<>>),
      CsvFile(BadHeader, <<Carrefour>>),
      UnreadableFile }

NoUpload == [readable |-> FALSE, columns |-> <<"-">>, rows |-> <<>>]

\* the rules a user types in the "Catégories" form
RulePool ==
    { [keyword |-> "a", category |-> "X"], [keyword |-> "AB", category |-> "Y"],
      [keyword |-> "Virement", category |-> "Z"], [keyword |-> "a", category |-> "Z"] }

\* the bank's own category and parent category of a line of the export
BankCategories ==
    { [category |-> Some("Supermarché"), categoryParent |-> Some("Alimentation")],
      [category |-> Some("Virements émis"), categoryParent |-> Some("Mouvements internes")],
      [category |-> Some("Mouvements internes"), categoryParent |-> NaN] }

\* the rows handed to categorize_transaction: label and supplier cells, and
\* the bank's category cells
CatRows ==
    { [label |-> l, supplierFound |-> sup,
       category |-> b.category, categoryParent |-> b.categoryParent] :
        l \in {Some("Carrefour ab"), Some("VIR Virement depuis Livret A"),
               Some("Virements Émis ab"), Some("Salaire"), NaN},
        sup \in {Some(""), NaN, Some("Colruyt")},
        b \in BankCategories }

\* the rule typed during a ledger session
SessionRulePool == { [keyword |-> "AB", category |-> "Y"] }

\* the content of auto_rules.json, in insertion order
SampleAutoRules ==
    << [category |-> "Alimentation", keywords |-> <<"carrefour", "Colruyt">>],
       [category |-> "Revenus", keywords |-> <<"salaire">>] >>

\* load_auto_rules(): {} when the file is absent or unreadable
AutoRuleSets == {<<>>, SampleAutoRules}

\* the cells of the ledgers handed to calculate_stats: amounts in cents,
\* categories, dates
StatAmounts == {Some(-5000), Some(-120000), Some(30000), NaN}

StatCategories == {"Mouvement interne", "Alimentation"}

StatDates == {"2024-03-05", "2024-04-15"}

\* the amounts typed in the budget form, in cents (min_value=0.0)
BudgetAmounts == {0, 4000, 6000}

\* the amounts of the ledgers of the budget pages, in cents
BudgetLedgerAmounts == {Some(-5000), Some(30000)}

\* ------------------------------------------------------------------------
\* Identity function
\* ------------------------------------------------------------------------
\* str() of a float64 amount held as cents: -5000 -> "-50.0", 123456 -> "1234.56"
FracStr(r) ==
    IF r % 10 = 0 THEN ToString(r \div 10)
    ELSE IF r < 10 THEN "0" \o ToString(r) ELSE ToString(r)

FloatStr(c) == (IF c < 0 THEN "-" ELSE "") \o ToString(Abs(c) \div 100) \o "." \o FracStr(Abs(c) % 100)

\* str() of the amount cell of a row: an int64 column prints without a
\* fraction ("-50"), a float64 column with one ("-50.0"), NaN as "nan".
\* An int64 column holds whole numbers only.
AmountStr(a, int64) ==
    IF a = NaN THEN "nan"
    ELSE IF int64 THEN (IF a[1] < 0 THEN "-" ELSE "") \o ToString(Abs(a[1]) \div 100)
    ELSE FloatStr(a[1])

\* str() of the dateOp cell once converted: a Timestamp at midnight, or NaT
DateStr(d) == IF d = NaN THEN "NaT" ELSE d[1] \o " 00:00:00"

\* generate_transaction_id(row); int64 is the dtype of the amount column
\* the row is taken from.  The value is the hashed string itself.
generate_transaction_id(row, int64) ==
    DateStr(row.dateOp) \o "_" \o AmountStr(row.amount, int64) \o "_"
        \o Str(row.label) \o "_" \o Str(row.supplierFound)

\* ------------------------------------------------------------------------
\* Categorization engine
\* ------------------------------------------------------------------------
MouvementInterne == "Mouvement interne"

Divers == "Divers"

internal_keywords ==
    << "virement depuis livret", "vir virement", "mouvements internes",
       "virements reçus", "virements émis" >>

\* the texts the bounded inputs are made of, and their lowercase forms,
\* tabulated once
KnownTexts ==
    {r.label : r \in RawRows} \cup {r.supplierFound : r \in RawRows}
    \cup {Str(r.label) : r \in CatRows} \cup {Str(r.supplierFound) : r \in CatRows}
    \cup {r.keyword : r \in RulePool} \cup {"nan"}

LowerTable == [s \in KnownTexts |-> Lower(s)]

\* s.lower()
lower(s) == LowerTable[s]

\* text = f"{supplier} {label}", both lowercased
SearchText(row) == lower(Str(row.supplierFound)) \o " " \o lower(Str(row.label))

IsInternal(text) == \E i \in DOMAIN internal_keywords : Contains(internal_keywords[i], text)

RECURSIVE UserRuleLoop_LastWins(_, _)
\* a loop that keeps the last matching rule instead of returning at the first
UserRuleLoop_LastWins(text, rules) ==
    IF rules = <<>> THEN NaN
    ELSE IF UserRuleLoop_LastWins(text, Tail(rules)) # NaN THEN UserRuleLoop_LastWins(text, Tail(rules))
    ELSE IF Contains(lower(Head(rules).keyword), text) THEN Some(Head(rules).category)
    ELSE NaN

RECURSIVE UserRuleLoop(_, _)
\* for rule in rules: if rule["keyword"].lower() in text: return rule["category"]
UserRuleLoop(text, rules) ==
    IF rules = <<>> THEN NaN
    ELSE IF Contains(lower(Head(rules).keyword), text) THEN Some(Head(rules).category)
    ELSE UserRuleLoop(text, Tail(rules))

RECURSIVE AutoRuleLoop(_, _)
\* for category, keywords in auto_rules.items(): if any(k in text for k in keywords)
AutoRuleLoop(text, auto) ==
    IF auto = <<>> THEN NaN
    ELSE IF \E i \in DOMAIN Head(auto).keywords : Contains(Head(auto).keywords[i], text)
         THEN Some(Head(auto).category)
    ELSE AutoRuleLoop(text, Tail(auto))

\* the fallback label of the other schema generation
Fallback_OtherLabel == "Non catégorisé"

Fallback == Divers

\* the auto rules consulted before the user rules
FirstTier_AutoFirst(user, autom) ==
    IF autom # NaN THEN autom[1] ELSE IF user # NaN THEN user[1] ELSE Fallback

\* the first tier that answers: user rule, then auto rule, then "Divers"
FirstTier(user, autom) ==
    IF user # NaN THEN user[1] ELSE IF autom # NaN THEN autom[1] ELSE Fallback

\* user rules consulted before the internal-transfer phrases
Categorize_UserFirst(text, rules, auto) ==
    IF UserRuleLoop(text, rules) # NaN THEN UserRuleLoop(text, rules)[1]
    ELSE IF IsInternal(text) THEN MouvementInterne
    ELSE FirstTier(NaN, AutoRuleLoop(text, auto))

Categorize(text, rules, auto) ==
    IF IsInternal(text) THEN MouvementInterne
    ELSE FirstTier(UserRuleLoop(text, rules), AutoRuleLoop(text, auto))

categorize_transaction(row, rules, auto) == Categorize(SearchText(row), rules, auto)

\* ------------------------------------------------------------------------
\* CSV ingestor
\* ------------------------------------------------------------------------
\* pd.read_csv turns an empty field (and the default NA spellings, of which
\* these are some) into NaN
NAValues == {"", "NA", "NaN", "nan", "null"}

Cell(t) == IF t \in NAValues THEN NaN ELSE Some(t)

required_columns == {"dateOp", "label", "amount"}

\* .astype(str).str.replace(' ', '').str.replace(',', '.')
CleanAmount(c) == Replace(Replace(Str(c), " ", ""), ",", ".")

Unsigned(s) == IF Len(s) > 0 /\ Char(s, 1) \in {"-", "+"} THEN SubSeq(s, 2, Len(s)) ELSE s

IntLiteral(s) == IsDigits(Unsigned(s))

\* position of the decimal point of u, Len(u) + 1 when it has none
DotOf(u) ==
    IF \E i \in 1..Len(u) : Char(u, i) = "."
    THEN CHOOSE i \in 1..Len(u) : Char(u, i) = "."
    ELSE Len(u) + 1

\* ip "." fp with digits on at least one side
FloatParts(ip, fp) ==
    /\ Len(ip) = 0 \/ IsDigits(ip)
    /\ Len(fp) = 0 \/ IsDigits(fp)
    /\ Len(ip) + Len(fp) > 0

UnsignedFloat(u, i) == i <= Len(u) /\ FloatParts(SubSeq(u, 1, i - 1), SubSeq(u, i + 1, Len(u)))

FloatLiteral(s) == UnsignedFloat(Unsigned(s), DotOf(Unsigned(s)))

\* cents of the fraction digits (digits past the second decimal are outside
\* the modelled amounts)
FracCents(fp) ==
    IF Len(fp) = 0 THEN 0
    ELSE IF Len(fp) = 1 THEN 10 * DigitVal(Char(fp, 1))
    ELSE ParseNat(SubSeq(fp, 1, 2))

UnsignedCents(u, i) == 100 * ParseNat(SubSeq(u, 1, i - 1)) + FracCents(SubSeq(u, i + 1, Len(u)))

Signed(s, mag) == IF Len(s) > 0 /\ Char(s, 1) = "-" THEN -mag ELSE mag

\* value in cents of a literal
LiteralCents(s) == Signed(s, UnsignedCents(Unsigned(s), DotOf(Unsigned(s))))

\* pd.to_numeric(x, errors='coerce') of one cleaned cell
to_numeric(s) == IF IntLiteral(s) \/ FloatLiteral(s) THEN Some(LiteralCents(s)) ELSE NaN

\* dtype of the converted amount column: int64 when every cell is an
\* integer literal, float64 otherwise
AmountColumnIsInt(cells) == \A i \in DOMAIN cells : IntLiteral(cells[i])

\* pd.to_datetime(x, format='%Y-%m-%d', errors='coerce') of one cell
IsDate(t) ==
    /\ Len(t) = 10
    /\ Char(t, 5) = "-" /\ Char(t, 8) = "-"
    /\ IsDigits(SubSeq(t, 1, 4)) /\ IsDigits(SubSeq(t, 6, 7)) /\ IsDigits(SubSeq(t, 9, 10))
    /\ ParseNat(SubSeq(t, 6, 7)) \in 1..12
    /\ ParseNat(SubSeq(t, 9, 10)) \in 1..31

to_datetime(c) == IF c # NaN /\ IsDate(c[1]) THEN c ELSE NaN

\* dt.strftime("%Y-%m")
MonthOf(d) == IF d = NaN THEN NaN ELSE Some(SubSeq(d[1], 1, 7))

\* df.columns.str.strip()
Columns(file) == {Strip(file.columns[i]) : i \in DOMAIN file.columns}

\* the frame read from an uploaded file: one record of cells per line; a
\* column that the header lacks is absent, supplierFound then defaults to ""
ReadRow(file, raw) ==
    [ dateOp        |-> Cell(raw.dateOp),
      label         |-> Cell(raw.label),
      amount        |-> Cell(raw.amount),
      supplierFound |-> IF "supplierFound" \in Columns(file)
                        THEN Cell(raw.supplierFound) ELSE Some("") ]

\* a converted line with its month bucket and id
Identified(row, int64) ==
    [ dateOp         |-> row.dateOp,
      dateOp_str     |-> MonthOf(row.dateOp),
      label          |-> row.label,
      supplierFound  |-> row.supplierFound,
      amount         |-> row.amount,
      autoCategory   |-> "",
      transaction_id |-> generate_transaction_id(row, int64) ]

\* one line after the conversions of parse_csv, its category left open
ParseRow(r, int64) ==
    Identified([ dateOp |-> to_datetime(r.dateOp), label |-> r.label,
                 amount |-> to_numeric(CleanAmount(r.amount)),
                 supplierFound |-> r.supplierFound ], int64)

\* parse_csv returns None
ParseFailed == [ok |-> FALSE, rows |-> <<>>]

ReadFrame(file) == [i \in DOMAIN file.rows |-> ReadRow(file, file.rows[i])]

ParseFrame(read, int64) == [i \in DOMAIN read |-> ParseRow(read[i], int64)]

CleanedAmounts(read) == [i \in DOMAIN read |-> CleanAmount(read[i].amount)]

\* the conversions of parse_csv that do not read the session: cleaning,
\* amounts, dates, ids
Ingest(file) == ParseFrame(ReadFrame(file), AmountColumnIsInt(CleanedAmounts(ReadFrame(file))))

\* Ingest of every file of the bounded inputs, tabulated once
IngestTable == [f \in Uploads \cup Batches |-> Ingest(f)]

\* df.apply(lambda row: categorize_transaction(row, rules), axis=1)
Categorized(df, rules, auto) ==
    [i \in DOMAIN df |-> [df[i] EXCEPT !.autoCategory = categorize_transaction(df[i], rules, auto)]]

\* parse_csv without the check of the required columns and with a frame
\* for a file that cannot be read
parse_csv_NoCheck(file, rules, auto) ==
    [ok |-> TRUE, rows |-> Categorized(IngestTable[file], rules, auto)]

\* parse_csv(uploaded_file): the parsed frame, or None after st.error when
\* the file cannot be read or lacks a required column
parse_csv(file, rules, auto) ==
    IF ~file.readable \/ ~(required_columns \subseteq Columns(file))
    THEN ParseFailed
    ELSE [ok |-> TRUE, rows |-> Categorized(IngestTable[file], rules, auto)]

\* ------------------------------------------------------------------------
\* Persistence
\* ------------------------------------------------------------------------
\* a file that does not exist
NoFile == [exists |-> FALSE, columns |-> {}, rows |-> <<>>]

\* text of a cell as to_csv writes it (NaN is written as an empty field)
CellText(c) == IF c = NaN THEN "" ELSE c[1]

ledger_columns ==
    {"dateOp", "dateOp_str", "label", "supplierFound", "amount", "autoCategory", "transaction_id"}

\* DataFrame.to_csv(TRANSACTIONS_FILE, sep=';', index=False)
to_csv(df) ==
    [ exists  |-> TRUE,
      columns |-> ledger_columns,
      rows    |-> [i \in DOMAIN df |->
                    [ dateOp         |-> CellText(df[i].dateOp),
                      dateOp_str     |-> CellText(df[i].dateOp_str),
                      label          |-> CellText(df[i].label),
                      supplierFound  |-> CellText(df[i].supplierFound),
                      amount         |-> IF df[i].amount = NaN THEN "" ELSE FloatStr(df[i].amount[1]),
                      autoCategory   |-> df[i].autoCategory,
                      transaction_id |-> df[i].transaction_id ]] ]

RECURSIVE drop_duplicates(_, _)
\* df.drop_duplicates(subset=["transaction_id"]): the first row of each id,
\* seen is the set of ids already kept
drop_duplicates(df, seen) ==
    IF df = <<>> THEN <<>>
    ELSE IF Head(df).transaction_id \in seen THEN drop_duplicates(Tail(df), seen)
    ELSE <<Head(df)>> \o drop_duplicates(Tail(df), seen \cup {Head(df).transaction_id})

\* a line of the ledger file once its columns are secured
Secured(file, w, row, int64) ==
    [ dateOp         |-> row.dateOp,
      dateOp_str     |-> IF "dateOp_str" \in file.columns THEN Cell(w.dateOp_str)
                         ELSE MonthOf(row.dateOp),
      label          |-> row.label,
      supplierFound  |-> row.supplierFound,
      amount         |-> row.amount,
      autoCategory   |-> w.autoCategory,
      transaction_id |-> IF "transaction_id" \in file.columns THEN w.transaction_id
                         ELSE generate_transaction_id(row, int64) ]

\* one line of the ledger file as load_transactions leaves it
LoadRow(file, w, int64) ==
    Secured(file, w,
            [ dateOp |-> to_datetime(Cell(w.dateOp)), label |-> Cell(w.label),
              amount |-> to_numeric(Str(Cell(w.amount))),
              supplierFound |-> IF "supplierFound" \in file.columns
                                THEN Cell(w.supplierFound) ELSE Some("") ],
            int64)

LoadFrame(file, int64) == [i \in DOMAIN file.rows |-> LoadRow(file, file.rows[i], int64)]

\* load_transactions(): the empty frame when the file is absent
load_transactions(file) ==
    IF ~file.exists THEN <<>>
    ELSE drop_duplicates(
             LoadFrame(file, \A i \in DOMAIN file.rows : IntLiteral(Str(Cell(file.rows[i].amount)))),
             {})

\* load_rules(): [] when the file is absent
load_rules(file) == IF file.exists THEN file.rows ELSE <<>>

\* save_rules(): json.dump of the whole list
save_rules(rs) == [exists |-> TRUE, columns |-> {"keyword", "category"}, rows |-> rs]

\* a ledger file written before ids and suppliers were stored, holding the
\* same movement twice
LegacyFile ==
    [ exists  |-> TRUE,
      columns |-> {"dateOp", "label", "amount", "autoCategory"},
      rows    |-> [i \in 1..2 |->
                    [ dateOp |-> "2024-03-05", dateOp_str |-> "", label |-> "Carrefour ab",
                      supplierFound |-> "", amount |-> "-50.0", autoCategory |-> "Divers",
                      transaction_id |-> "" ]] ]

InitialLedgerFiles == {NoFile, LegacyFile}

\* ------------------------------------------------------------------------
\* Statistics
\* ------------------------------------------------------------------------
AllMonths == "Tous les mois"

\* the result of calculate_stats on an empty frame
EmptyStats ==
    [ total_expenses |-> 0, total_income |-> 0, balance |-> 0,
      by_category |-> <<>>, savings_in |-> 0, savings_out |-> 0, net_savings |-> 0,
      avg_daily_expense |-> [num |-> 0, den |-> 1],
      largest_expense |-> [label |-> Some(""), amount |-> 0],
      expense_count |-> 0 ]

\* df[df["dateOp_str"] == selected_month] when a month is selected
InMonth(df, selected_month) ==
    IF selected_month # NaN /\ selected_month # Some(AllMonths)
    THEN SelectSeq(df, LAMBDA r : r.dateOp_str = selected_month)
    ELSE df

\* df[df['autoCategory'] == 'Mouvement interne']
Internal(df) == SelectSeq(df, LAMBDA r : r.autoCategory = MouvementInterne)

\* df_filtered without the exclusion of the internal movements
NonInternal_All(df) == df

\* df[df['autoCategory'] != 'Mouvement interne']
NonInternal(df) == SelectSeq(df, LAMBDA r : r.autoCategory # MouvementInterne)

\* df[df['amount'] < 0], df[df['amount'] > 0]: a NaN amount is in neither
Negative(df) == SelectSeq(df, LAMBDA r : r.amount # NaN /\ r.amount[1] < 0)

Positive(df) == SelectSeq(df, LAMBDA r : r.amount # NaN /\ r.amount[1] > 0)

\* df['amount'].sum(), which skips NaN
AmountSum(df) == Sum([i \in DOMAIN df |-> IF df[i].amount = NaN THEN 0 ELSE df[i].amount[1]])

\* expenses.groupby('category_final')['amount'].sum().abs().to_dict()
by_category(expenses) ==
    [c \in {expenses[i].autoCategory : i \in DOMAIN expenses} |->
        Abs(AmountSum(SelectSeq(expenses, LAMBDA r : r.autoCategory = c)))]

Max(S) == CHOOSE x \in S : \A y \in S : y <= x

\* pd.to_datetime(expenses['dateOp']).dt.day.max(): NaN when no row has a date
DayOf(d) == ParseNat(SubSeq(d[1], 9, 10))

Days(expenses) == {DayOf(expenses[i].dateOp) : i \in {j \in DOMAIN expenses : expenses[j].dateOp # NaN}}

\* total_expenses / days_in_month, kept as a fraction of cents
avg_daily_expense(expenses, selected_month) ==
    IF expenses # <<>> /\ selected_month # NaN /\ selected_month # Some(AllMonths)
       /\ Days(expenses) # {} /\ Max(Days(expenses)) > 0
    THEN [num |-> Abs(AmountSum(expenses)), den |-> Max(Days(expenses))]
    ELSE [num |-> 0, den |-> 1]

\* expenses['amount'].abs().idxmax(): the first row of the largest absolute amount
IdxMax(expenses) ==
    CHOOSE i \in DOMAIN expenses :
        /\ \A j \in DOMAIN expenses : Abs(expenses[j].amount[1]) <= Abs(expenses[i].amount[1])
        /\ \A j \in 1..(i - 1) : Abs(expenses[j].amount[1]) < Abs(expenses[i].amount[1])

largest_expense(expenses) ==
    IF expenses # <<>>
    THEN [label |-> expenses[IdxMax(expenses)].label,
          amount |-> Abs(expenses[IdxMax(expenses)].amount[1])]
    ELSE [label |-> Some(""), amount |-> 0]

\* the dict returned for a non-empty frame, from its four groups of rows
StatsOf(expenses, income, internal_in, internal_out, selected_month) ==
    [ total_expenses    |-> Abs(AmountSum(expenses)),
      total_income      |-> AmountSum(income),
      balance           |-> AmountSum(income) - Abs(AmountSum(expenses)),
      by_category       |-> by_category(expenses),
      savings_in        |-> Abs(AmountSum(internal_in)),
      savings_out       |-> AmountSum(internal_out),
      net_savings       |-> Abs(AmountSum(internal_in)) - AmountSum(internal_out),
      avg_daily_expense |-> avg_daily_expense(expenses, selected_month),
      largest_expense   |-> largest_expense(expenses),
      expense_count     |-> Len(expenses) ]

\* the groups of a frame already restricted to the period
GroupedStats(df, selected_month) ==
    StatsOf(Negative(NonInternal(df)), Positive(NonInternal(df)),
            Negative(Internal(df)), Positive(Internal(df)), selected_month)

\* calculate_stats(df, selected_month)
calculate_stats(df, selected_month) ==
    IF df = <<>> THEN EmptyStats
    ELSE GroupedStats(InMonth(df, selected_month), selected_month)

\* ------------------------------------------------------------------------
\* Budget alerts
\* ------------------------------------------------------------------------
\* the outcome of a call: the list returned, or ZeroDivisionError raised
Returned(alerts) == [raised |-> FALSE, alerts |-> alerts]

ZeroDivisionError == [raised |-> TRUE, alerts |-> <<>>]

\* (spent / limit) * 100, truncated; NaN stands for ZeroDivisionError
Percentage(spent, limit) ==
    IF limit = 0 THEN NaN ELSE Some((spent * 100) \div limit)

Alert(category, spent, limit, status) ==
    [category |-> category, spent |-> spent, limit |-> limit, status |-> status]

\* the body of the loop for a budgeted category that has expenses
AlertsFor(category, spent, limit, percentage) ==
    IF percentage[1] >= 100 THEN <<Alert(category, spent, limit, "danger")>>
    ELSE IF percentage[1] >= 80 THEN <<Alert(category, spent, limit, "warning")>>
    ELSE <<>>

\* the alerts of one entry followed by those of the rest of the loop
Then(alerts, rest) == IF rest.raised THEN rest ELSE Returned(alerts \o rest.alerts)

\* the division of one entry, then its alerts and the rest of the loop
Divided(category, spent, limit, percentage, rest) ==
    IF percentage = NaN THEN ZeroDivisionError
    ELSE Then(AlertsFor(category, spent, limit, percentage), rest)

RECURSIVE get_budget_alerts(_, _)
\* get_budget_alerts(stats, budgets); budgets in insertion order
get_budget_alerts(stats, bs) ==
    IF bs = <<>> THEN Returned(<<>>)
    ELSE IF Head(bs).category \in DOMAIN stats.by_category
    THEN Divided(Head(bs).category, stats.by_category[Head(bs).category], Head(bs).limit,
                 Percentage(stats.by_category[Head(bs).category], Head(bs).limit),
                 get_budget_alerts(stats, Tail(bs)))
    ELSE get_budget_alerts(stats, Tail(bs))

\* ------------------------------------------------------------------------
\* Session state
\* ------------------------------------------------------------------------
VARIABLES
    all_transactions,   \* st.session_state.all_transactions
    transactions_file,  \* all_transactions.csv
    rules,              \* st.session_state.rules
    rules_file,         \* categorization_rules.json
    auto_rules,         \* st.session_state.auto_rules (insertion-ordered)
    uploaded_file,      \* the csv_uploader widget
    recat_button,       \* the "Recatégoriser" button was rendered by the last run
    messages,           \* st.error / st.warning / st.success of the last run
    budgets,            \* st.session_state.budgets (insertion-ordered)
    cat_call,           \* the last call of categorize_transaction: row and result
    stats_view          \* the period and stats of the dashboard, when it is shown

vars == <<all_transactions, transactions_file, rules, rules_file, auto_rules,
          uploaded_file, recat_button, messages, budgets, cat_call, stats_view>>

\* no call was made / the dashboard is not shown by the last run
NoCall == [called |-> FALSE]

NoView == [shown |-> FALSE]

ClearLocals == cat_call' = NoCall /\ stats_view' = NoView

Msg(level, what, n) == [level |-> level, what |-> what, count |-> n]

Init ==
    /\ transactions_file \in InitialLedgerFiles
    /\ all_transactions = load_transactions(transactions_file)
    /\ rules_file = NoFile
    /\ rules = load_rules(rules_file)
    /\ auto_rules = SampleAutoRules
    /\ uploaded_file = NoUpload
    /\ recat_button = FALSE
    /\ messages = <<>>
    /\ budgets = <<>>
    /\ cat_call = NoCall
    /\ stats_view = NoView

\* ------------------------------------------------------------------------
\* Import CSV page
\* ------------------------------------------------------------------------
Ids(df) == {df[i].transaction_id : i \in DOMAIN df}

\* a filter that lets every incoming row through
FilterNew_KeepAll(batch, existing_ids) == batch

\* new_transactions[~new_transactions["transaction_id"].isin(existing_ids)]
FilterNew(batch, existing_ids) ==
    SelectSeq(batch, LAMBDA r : r.transaction_id \notin existing_ids)

\* the frames concatenated in the other order
Concat_NewFirst(df, new) == new \o df

\* pd.concat([all_transactions, new_transactions], ignore_index=True)
Concat(df, new) == df \o new

\* a recategorization that leaves the stored categories as they are
recategorize_all_Stale(df, rs, auto) == df

\* recategorize_all(): the frame it leaves in the session (and saves)
recategorize_all(df, rs, auto) == Categorized(df, rs, auto)

\* a run that never calls save_transactions
Report_Unsaved(df, saved, msgs) == [ledger |-> df, saved |-> FALSE, messages |-> msgs]

\* one run of the page with `file` in the uploader: the ledger it leaves
\* and what it reports; clicked: the run was triggered by the
\* "Recatégoriser" button, which exists only where rows were added
Report(df, saved, msgs) == [ledger |-> df, saved |-> saved, messages |-> msgs]

\* the else branch: rows are appended and saved, the button is rendered
Append_(merged, n, clicked, rs, auto) ==
    IF clicked
    THEN Report(recategorize_all(merged, rs, auto), TRUE,
                <<Msg("success", "nouvelles transactions ajoutées", n),
                  Msg("success", "Recatégorisation terminée", 0)>>)
    ELSE Report(merged, TRUE, <<Msg("success", "nouvelles transactions ajoutées", n)>>)

Merge(df, new, clicked, rs, auto) ==
    IF new = <<>> THEN Report(df, FALSE, <<Msg("warning", "doublons ignorés", 0)>>)
    ELSE Append_(Concat(df, new), Len(new), clicked, rs, auto)

Imported(df, parsed, clicked, rs, auto) ==
    IF ~parsed.ok
    THEN Report(df, FALSE, <<Msg("error", "Erreur lors de la lecture du CSV", 0),
                             Msg("warning", "Aucune transaction valide", 0)>>)
    ELSE IF parsed.rows = <<>>
    THEN Report(df, FALSE, <<Msg("warning", "Aucune transaction valide", 0)>>)
    ELSE Merge(df, FilterNew(parsed.rows, Ids(df)), clicked, rs, auto)

ImportRun(df, file, clicked, rs, auto) == Imported(df, parse_csv(file, rs, auto), clicked, rs, auto)

Apply(run, file) ==
    /\ Len(run.ledger) <= MaxLedger
    /\ all_transactions' = run.ledger
    /\ transactions_file' = IF run.saved THEN to_csv(run.ledger) ELSE transactions_file
    /\ recat_button' = run.saved
    /\ messages' = run.messages
    /\ uploaded_file' = file
    /\ ClearLocals
    /\ UNCHANGED <<rules, rules_file, auto_rules, budgets>>

\* one run of the "Import CSV" page
RunImportPage(file, clicked) ==
    Apply(ImportRun(all_transactions, file, clicked, rules, auto_rules), file)

\* the user puts a file in the uploader
Upload(file) == RunImportPage(file, FALSE)

\* any other interaction on the page reruns it with the file still uploaded
Rerun == uploaded_file # NoUpload /\ RunImportPage(uploaded_file, FALSE)

\* the user presses "Recatégoriser toutes les transactions"
ClickRecategorize == recat_button /\ RunImportPage(uploaded_file, TRUE)

\* ------------------------------------------------------------------------
\* Catégories page
\* ------------------------------------------------------------------------
LeaveImportPage == uploaded_file' = NoUpload /\ recat_button' = FALSE

AddRule(k, c) ==
    /\ Len(rules) < MaxRules
    /\ rules' = Append(rules, [keyword |-> k, category |-> c])
    /\ rules_file' = save_rules(rules')
    /\ messages' = <<Msg("success", "Règle ajoutée", 0)>>
    /\ LeaveImportPage
    /\ ClearLocals
    /\ UNCHANGED <<all_transactions, transactions_file, auto_rules, budgets>>

\* index of the first occurrence of sep in s, 0 when there is none
FirstIndexOf(sep, s) ==
    LET hits == {i \in 1..(Len(s) - Len(sep) + 1) : SubSeq(s, i, i + Len(sep) - 1) = sep}
    IN  IF hits = {} THEN 0 ELSE CHOOSE i \in hits : \A j \in hits : i <= j

\* rule_to_delete.split(" → ")[0]
SplitHead(s) == IF FirstIndexOf(" → ", s) = 0 THEN s ELSE SubSeq(s, 1, FirstIndexOf(" → ", s) - 1)

RuleOption(rule) == rule.keyword \o " → " \o rule.category

\* [rule for rule in rules if rule["keyword"] != keyword_to_delete]
delete_rule(rs, option) == SelectSeq(rs, LAMBDA r : r.keyword # SplitHead(option))

DeleteRule(i) ==
    /\ i \in DOMAIN rules
    /\ rules' = delete_rule(rules, RuleOption(rules[i]))
    /\ rules_file' = save_rules(rules')
    /\ messages' = <<Msg("success", "Règle supprimée", 0)>>
    /\ LeaveImportPage
    /\ ClearLocals
    /\ UNCHANGED <<all_transactions, transactions_file, auto_rules, budgets>>

\* ------------------------------------------------------------------------
\* A new session: the script starts with an empty session state
\* ------------------------------------------------------------------------
Reload ==
    /\ all_transactions' = load_transactions(transactions_file)
    /\ rules' = load_rules(rules_file)
    /\ uploaded_file' = NoUpload
    /\ recat_button' = FALSE
    /\ messages' = <<>>
    /\ budgets' = <<>>
    /\ ClearLocals
    /\ UNCHANGED <<transactions_file, rules_file, auto_rules>>

Next ==
    \/ \E f \in Uploads : Upload(f)
    \/ Rerun
    \/ ClickRecategorize
    \/ \E r \in SessionRulePool : AddRule(r.keyword, r.category)
    \/ \E i \in 1..MaxRules : DeleteRule(i)
    \/ Reload

Spec == Init /\ [][Next]_vars

\* ------------------------------------------------------------------------
\* Properties of the import (Spec)
\* ------------------------------------------------------------------------
\* C1: no two ledger entries have the same transaction id.
C1_NoDuplicateIds ==
    \A i, j \in DOMAIN all_transactions :
        i # j => all_transactions[i].transaction_id # all_transactions[j].transaction_id

\* importing file f into the ledger once, which already holds f, leaves it
\* as it is, by a plain rerun and by a press on the button
ReimportKeeps(once, f) ==
    \A c \in BOOLEAN : ImportRun(once, f, c, rules, auto_rules).ledger = once

\* C2: importing a batch a second time changes nothing: for the ledger of
\* every reachable state and every file the user uploads, the ledger left by
\* importing the file is left as it is by importing the same file again (by
\* a plain rerun of the page or by a press on the button it shows).
C2_ImportIdempotent ==
    \A f \in Uploads :
        ReimportKeeps(ImportRun(all_transactions, f, FALSE, rules, auto_rules).ledger, f)

\* a file with lines is in the uploader, its rows are in the ledger and the
\* last run, importing it again, rejected all of them
C2_Witness ==
    /\ uploaded_file # NoUpload
    /\ uploaded_file.rows # <<>>
    /\ all_transactions # <<>>
    /\ messages = <<Msg("warning", "doublons ignorés", 0)>>
    /\ Ids(IngestTable[uploaded_file]) \subseteq Ids(all_transactions)

\* the k-th smallest element of a set of indices
Kth(S, k) == CHOOSE i \in S : Cardinality({j \in S : j <= i}) = k

\* new is the rows of batch whose index is in keep, in the order of batch
IsSelection(new, batch, keep) ==
    /\ Len(new) = Cardinality(keep)
    /\ \A k \in 1..Len(new) : new[k] = batch[Kth(keep, k)]

\* after is before followed by the rows of batch whose id no entry of
\* before has, in their order
IsMergeOf(after, before, batch) ==
    /\ Len(after) >= Len(before)
    /\ SubSeq(after, 1, Len(before)) = before
    /\ IsSelection(SubSeq(after, Len(before) + 1, Len(after)), batch,
                   {i \in DOMAIN batch : \A j \in DOMAIN before :
                        before[j].transaction_id # batch[i].transaction_id})

ImportSucceeded(msgs) == msgs # <<>> /\ msgs[1] .level = "success"

\* C3: a run of the import page that reports success leaves the ledger as
\* the former ledger followed by exactly the parsed rows whose id was not in
\* it, in their order; any run of the page keeps every former entry, as it
\* was and where it was.
C3_ImportAppendsNewRows ==
    [][ uploaded_file' # NoUpload =>
          /\ Len(all_transactions') >= Len(all_transactions)
          /\ SubSeq(all_transactions', 1, Len(all_transactions)) = all_transactions
          /\ ImportSucceeded(messages') =>
                IsMergeOf(all_transactions', all_transactions,
                          parse_csv(uploaded_file', rules, auto_rules).rows) ]_vars

\* an import into a ledger that was not empty appended some rows of the file
\* and rejected others
C3_Witness ==
    /\ uploaded_file # NoUpload
    /\ ImportSucceeded(messages)
    /\ messages[1].count >= 1
    /\ messages[1].count < Len(uploaded_file.rows)
    /\ Len(all_transactions) > messages[1].count

\* the file cannot be read or its header, once stripped, lacks one of
\* dateOp, label, amount
Malformed(file) ==
    \/ ~file.readable
    \/ \E c \in {"dateOp", "label", "amount"} :
          \A i \in DOMAIN file.columns : Strip(file.columns[i]) # c

\* C4: a run of the import page on a file that lacks a required column or
\* cannot be read reports an error and leaves the session ledger and the
\* ledger file as they were.
C4_MalformedUploadAborts ==
    [][ (uploaded_file' # NoUpload /\ Malformed(uploaded_file')) =>
          /\ all_transactions' = all_transactions
          /\ transactions_file' = transactions_file
          /\ \E i \in DOMAIN messages' : messages'[i].level = "error" ]_vars

\* a malformed file was uploaded while the ledger held entries
C4_Witness ==
    /\ uploaded_file # NoUpload
    /\ Malformed(uploaded_file)
    /\ all_transactions # <<>>
    /\ transactions_file.exists
    /\ \E i \in DOMAIN messages : messages[i].level = "error"

\* C5: the ledger holds no transaction whose amount is NaN.
C5_NoNaNAmount == \A i \in DOMAIN all_transactions : all_transactions[i].amount # NaN

\* C10: when the records of a file without a supplierFound column are in the
\* ledger, uploading the same lines in a file whose supplierFound column is
\* present and empty adds nothing: they get the same ids and are rejected.
C10_MissingSupplierIsEmpty ==
    [][ \A r \in SeqsUpTo(RawRows, MaxBatch) \ {<<>>} :
          ( /\ \A i \in DOMAIN r : r[i].supplierFound = ""
            /\ Ids(IngestTable[CsvFile(PlainHeader, r)]) \subseteq Ids(all_transactions)
            /\ uploaded_file' = CsvFile(SupplierHeader, r) )
          => all_transactions' = all_transactions ]_vars

\* a step that starts a new session: the ledger is read from the file
SessionStart ==
    /\ all_transactions' = load_transactions(transactions_file)
    /\ transactions_file' = transactions_file
    /\ uploaded_file' = NoUpload
    /\ messages' = <<>>

\* C11: within a session the in-memory ledger changes only in a run of the
\* import page (merge or recategorization), and every step that changed it
\* ends with the ledger file holding exactly the in-memory ledger.
C11_ChangedLedgerIsSaved ==
    [][ all_transactions' # all_transactions =>
          \/ SessionStart
          \/ /\ uploaded_file' # NoUpload
             /\ transactions_file'.exists
             /\ transactions_file' = to_csv(all_transactions') ]_vars

\* an import has just added rows to a ledger that held some, and the file
\* holds the result
C11_Witness ==
    /\ uploaded_file # NoUpload
    /\ ImportSucceeded(messages)
    /\ Len(all_transactions) > messages[1].count
    /\ transactions_file = to_csv(all_transactions)
    /\ Len(transactions_file.rows) = Len(all_transactions)

\* C12: every run of the import page on a parsed batch reports the number
\* of rows rejected as duplicates, which is the size of the batch minus the
\* number of rows added; a second import of the same file adds nothing and
\* reports as many rejected rows as the file has.
C12_RejectedCountReported ==
    [][ ( /\ uploaded_file' # NoUpload
          /\ parse_csv(uploaded_file', rules, auto_rules).ok
          /\ parse_csv(uploaded_file', rules, auto_rules).rows # <<>> )
        => \E i \in DOMAIN messages' :
              /\ messages'[i].what = "doublons ignorés"
              /\ messages'[i].count =
                    Len(parse_csv(uploaded_file', rules, auto_rules).rows)
                    - (Len(all_transactions') - Len(all_transactions)) ]_vars

\* C19: the stored categories follow the rules: once user rules are set, a
\* press on the "Recatégoriser" button of the import page runs the
\* recategorization, so that afterwards every entry of the ledger has the
\* category that categorize_transaction gives it under the current rules.
C19_ClickRecategorizes ==
    [][ (rules # <<>> /\ ClickRecategorize) =>
          \A i \in DOMAIN all_transactions' :
              all_transactions'[i].autoCategory =
                  categorize_transaction(all_transactions'[i], rules', auto_rules') ]_vars

\* ------------------------------------------------------------------------
\* Categorization engine on its own: the rule list is edited through the
\* "Catégories" page and categorize_transaction is applied to one row
\* ------------------------------------------------------------------------
CategorizeRow(row) ==
    /\ cat_call' = [called |-> TRUE, row |-> row,
                    category |-> categorize_transaction(row, rules, auto_rules)]
    /\ UNCHANGED <<all_transactions, transactions_file, rules, rules_file, auto_rules,
                   uploaded_file, recat_button, messages, budgets, stats_view>>

InitCategorize ==
    /\ transactions_file = NoFile
    /\ all_transactions = load_transactions(transactions_file)
    /\ rules_file = NoFile
    /\ rules = load_rules(rules_file)
    /\ auto_rules \in AutoRuleSets
    /\ uploaded_file = NoUpload
    /\ recat_button = FALSE
    /\ messages = <<>>
    /\ budgets = <<>>
    /\ cat_call = NoCall
    /\ stats_view = NoView

NextCategorize ==
    \/ \E r \in RulePool : AddRule(r.keyword, r.category)
    \/ \E i \in 1..MaxRules : DeleteRule(i)
    \/ \E row \in CatRows : CategorizeRow(row)

SpecCategorize == InitCategorize /\ [][NextCategorize]_vars

\* ------------------------------------------------------------------------
\* Properties of the categorization engine (SpecCategorize)
\* ------------------------------------------------------------------------
\* the label, lowercased, contains one of the internal-transfer phrases
LabelHasInternalPhrase(row) ==
    /\ row.label # NaN
    /\ \E i \in DOMAIN internal_keywords : Contains(internal_keywords[i], Lower(row.label[1]))

\* the lowercased "supplier label" text of a row, spelled out
TextOf(row) == Lower(Str(row.supplierFound) \o " " \o Str(row.label))

\* the indices of the user rules whose lowercased keyword occurs in the text
MatchingRules(row, rs) == {i \in DOMAIN rs : Contains(Lower(rs[i].keyword), TextOf(row))}

TextIsInternal(row) == \E i \in DOMAIN internal_keywords : Contains(internal_keywords[i], TextOf(row))

C7_FirstMatchingRuleWins ==
    (cat_call.called /\ ~TextIsInternal(cat_call.row) /\ MatchingRules(cat_call.row, rules) # {})
        => \E i \in MatchingRules(cat_call.row, rules) :
              /\ \A j \in MatchingRules(cat_call.row, rules) : i <= j
              /\ cat_call.category = rules[i].category

\* two rules of different categories match and the first one decided
C7_Witness ==
    /\ cat_call.called
    /\ ~TextIsInternal(cat_call.row)
    /\ \E i, j \in MatchingRules(cat_call.row, rules) :
          i < j /\ rules[i].category # rules[j].category /\ cat_call.category = rules[i].category

BankSaysInternal(row) ==
    \/ Contains("mouvements internes", Lower(Str(row.category)))
    \/ Contains("mouvements internes", Lower(Str(row.categoryParent)))

\* C14: a transaction whose bank category or parent category contains
\* "mouvements internes" is categorized "Mouvement interne", whatever its
\* label, its supplier and the rules.
C14_BankCategoryInternal ==
    (cat_call.called /\ BankSaysInternal(cat_call.row))
        => cat_call.category = "Mouvement interne"

\* the indices of the auto-rule entries one of whose keywords, lowercased,
\* occurs in the text
MatchingAutoRules(row, auto) ==
    {i \in DOMAIN auto :
        \E k \in DOMAIN auto[i].keywords : Contains(Lower(auto[i].keywords[k]), TextOf(row))}

\* C15: for a transaction that is no internal transfer and that no user
\* rule matches, when an auto-rule keyword, lowercased, occurs in the text,
\* the result is the category of the first such entry, in whatever case the
\* keyword is stored.
C15_AutoRuleCaseInsensitive ==
    ( /\ cat_call.called
      /\ ~TextIsInternal(cat_call.row)
      /\ MatchingRules(cat_call.row, rules) = {}
      /\ MatchingAutoRules(cat_call.row, auto_rules) # {} )
    => \E i \in MatchingAutoRules(cat_call.row, auto_rules) :
          /\ \A j \in MatchingAutoRules(cat_call.row, auto_rules) : i <= j
          /\ cat_call.category = auto_rules[i].category

\* the categories of the auto-rule entries one of whose keywords, as
\* stored, occurs in the text
AutoCategories(row, auto) ==
    {auto[i].category : i \in {j \in DOMAIN auto :
        \E k \in DOMAIN auto[j].keywords : Contains(auto[j].keywords[k], TextOf(row))}}

\* C16: for a transaction that is no internal transfer and that matches a
\* user rule and an auto-rule keyword of another category, the result is the
\* category of a matching user rule, not the auto-rule category.
C16_UserRulesBeforeAutoRules ==
    ( /\ cat_call.called
      /\ ~TextIsInternal(cat_call.row)
      /\ MatchingRules(cat_call.row, rules) # {}
      /\ AutoCategories(cat_call.row, auto_rules) # {} )
    => /\ cat_call.category \in {rules[i].category : i \in MatchingRules(cat_call.row, rules)}
       /\ cat_call.category \notin
             AutoCategories(cat_call.row, auto_rules)
                \ {rules[i].category : i \in MatchingRules(cat_call.row, rules)}

\* a user rule and an auto rule of another category matched the row and
\* the user rule decided
C16_Witness ==
    /\ cat_call.called
    /\ ~TextIsInternal(cat_call.row)
    /\ MatchingRules(cat_call.row, rules) # {}
    /\ AutoCategories(cat_call.row, auto_rules) # {}
    /\ \A i \in DOMAIN rules : rules[i].category \notin AutoCategories(cat_call.row, auto_rules)
    /\ cat_call.category \in {rules[i].category : i \in DOMAIN rules}

\* the list without its i-th element
RemoveAt(rs, i) == SubSeq(rs, 1, i - 1) \o SubSeq(rs, i + 1, Len(rs))

\* C18: deleting the rule selected in the list removes that rule alone:
\* every other rule stays, in order, also one with the same keyword, and the
\* rules file holds the list that is left.
C18_DeleteRemovesOneRule ==
    [][ \A i \in 1..MaxRules :
          DeleteRule(i) => /\ rules' = RemoveAt(rules, i)
                           /\ rules_file' = save_rules(rules') ]_vars

\* ------------------------------------------------------------------------
\* Recategorization on its own
\* ------------------------------------------------------------------------
\* the ledgers left by one import under the auto rules alone
RecatLedgers(auto) ==
    {parse_csv(f, <<>>, auto).rows : f \in {g \in Uploads : parse_csv(g, <<>>, auto).ok}}

\* a call of recategorize_all(): nothing happens on an empty ledger, else
\* the categories are recomputed and the ledger is saved
RecategorizeAll ==
    /\ all_transactions' = IF all_transactions = <<>> THEN all_transactions
                           ELSE recategorize_all(all_transactions, rules, auto_rules)
    /\ transactions_file' = IF all_transactions = <<>> THEN transactions_file
                            ELSE to_csv(all_transactions')
    /\ messages' = <<Msg("success", "Recatégorisation terminée", 0)>>
    /\ ClearLocals
    /\ UNCHANGED <<rules, rules_file, auto_rules, uploaded_file, recat_button, budgets>>

InitRecat ==
    /\ auto_rules \in AutoRuleSets
    /\ all_transactions \in RecatLedgers(auto_rules)
    /\ transactions_file = to_csv(all_transactions)
    /\ rules_file = NoFile
    /\ rules = load_rules(rules_file)
    /\ uploaded_file = NoUpload
    /\ recat_button = FALSE
    /\ messages = <<>>
    /\ budgets = <<>>
    /\ cat_call = NoCall
    /\ stats_view = NoView

NextRecat ==
    \/ \E r \in RulePool : AddRule(r.keyword, r.category)
    \/ \E i \in 1..MaxRules : DeleteRule(i)
    \/ RecategorizeAll

SpecRecat == InitRecat /\ [][NextRecat]_vars

\* the entry but for its category
Uncategorized(row) == [row EXCEPT !.autoCategory = ""]

\* C17: a call of recategorize_all keeps the number of entries, their order
\* and every field of every entry but the category, and leaves each entry
\* with the category that categorize_transaction gives it under the current
\* rules.
C17_RecategorizeRederives ==
    [][ RecategorizeAll =>
          /\ Len(all_transactions') = Len(all_transactions)
          /\ \A i \in DOMAIN all_transactions :
                /\ Uncategorized(all_transactions'[i]) = Uncategorized(all_transactions[i])
                /\ all_transactions'[i].autoCategory =
                      categorize_transaction(all_transactions[i], rules, auto_rules) ]_vars

\* a recategorization has given an entry the category of a user rule, which
\* no ledger starts with
C17_Witness ==
    /\ messages = <<Msg("success", "Recatégorisation terminée", 0)>>
    /\ Len(all_transactions) >= 2
    /\ \E i \in DOMAIN all_transactions : \E j \in DOMAIN rules :
          all_transactions[i].autoCategory = rules[j].category
    /\ transactions_file = to_csv(all_transactions)

\* ------------------------------------------------------------------------
\* Dashboard on its own
\* ------------------------------------------------------------------------
\* a ledger row as parse_csv leaves it, with the category given
StatRow(date, amount, category) ==
    [ Identified([dateOp |-> Some(date), label |-> Some("Carrefour ab"),
                  amount |-> amount, supplierFound |-> Some("")], FALSE)
      EXCEPT !.autoCategory = category ]

StatRows == {StatRow(d, a, c) : d \in StatDates, a \in StatAmounts, c \in StatCategories}

StatLedgers == SeqsUpTo(StatRows, MaxStatRows)

\* sorted(all_transactions['dateOp_str'].dropna().unique()) of the selector
available_months(df) == {df[i].dateOp_str[1] : i \in {j \in DOMAIN df : df[j].dateOp_str # NaN}}

\* what the page shows: the stats and, when budgets are set, the alerts
DashboardView(selected_month, stats) ==
    [ shown |-> TRUE, month |-> selected_month, stats |-> stats,
      alerts |-> IF budgets # <<>> THEN get_budget_alerts(stats, budgets)
                 ELSE Returned(<<>>) ]

\* the header's month selector, then the "Tableau de bord" page
Dashboard(selected_month) ==
    /\ all_transactions # <<>>
    /\ selected_month \in {AllMonths} \cup available_months(all_transactions)
    /\ stats_view' =
          DashboardView(selected_month,
                        calculate_stats(all_transactions,
                            IF selected_month # AllMonths THEN Some(selected_month) ELSE NaN))
    /\ cat_call' = NoCall
    /\ UNCHANGED <<all_transactions, transactions_file, rules, rules_file, auto_rules,
                   uploaded_file, recat_button, messages, budgets>>

InitStats ==
    /\ all_transactions \in StatLedgers
    /\ transactions_file = to_csv(all_transactions)
    /\ rules_file = NoFile
    /\ rules = load_rules(rules_file)
    /\ auto_rules = SampleAutoRules
    /\ uploaded_file = NoUpload
    /\ recat_button = FALSE
    /\ messages = <<>>
    /\ budgets = <<>>
    /\ cat_call = NoCall
    /\ stats_view = NoView

NextStats == \E m \in {AllMonths} \cup {SubSeq(d, 1, 7) : d \in StatDates} : Dashboard(m)

SpecStats == InitStats /\ [][NextStats]_vars

\* ------------------------------------------------------------------------
\* Budgets page with the dashboard
\* ------------------------------------------------------------------------
\* the categories of the selectbox
BudgetCategories(df) == {"Toutes"} \cup {df[i].autoCategory : i \in DOMAIN df}

BudgetIndex(bs, category) == {i \in DOMAIN bs : bs[i].category = category}

\* st.session_state.budgets[budget_category] = budget_amount
SetItem(bs, category, limit) ==
    IF BudgetIndex(bs, category) = {}
    THEN Append(bs, [category |-> category, limit |-> limit])
    ELSE [i \in DOMAIN bs |-> IF bs[i].category = category
                              THEN [category |-> category, limit |-> limit] ELSE bs[i]]

\* the "Ajouter/Modifier le budget" button
SetBudget(budget_category, budget_amount) ==
    /\ all_transactions # <<>>
    /\ budget_category \in BudgetCategories(all_transactions)
    /\ Len(SetItem(budgets, budget_category, budget_amount)) <= MaxBudgets
    /\ budgets' = IF budget_category # "Toutes"
                  THEN SetItem(budgets, budget_category, budget_amount) ELSE budgets
    /\ messages' = IF budget_category # "Toutes"
                   THEN <<Msg("success", "Budget défini", budget_amount)>>
                   ELSE <<Msg("warning", "Veuillez sélectionner une catégorie valide", 0)>>
    /\ LeaveImportPage
    /\ ClearLocals
    /\ UNCHANGED <<all_transactions, transactions_file, rules, rules_file, auto_rules>>

\* the "Supprimer" button: del st.session_state.budgets[category_to_delete]
DeleteBudget(i) ==
    /\ all_transactions # <<>>
    /\ i \in DOMAIN budgets
    /\ budgets' = SelectSeq(budgets, LAMBDA b : b.category # budgets[i].category)
    /\ messages' = <<Msg("success", "Budget supprimé", 0)>>
    /\ LeaveImportPage
    /\ ClearLocals
    /\ UNCHANGED <<all_transactions, transactions_file, rules, rules_file, auto_rules>>

BudgetLedgers ==
    SeqsUpTo({StatRow(d, a, c) : d \in StatDates, a \in BudgetLedgerAmounts, c \in StatCategories},
             MaxBudgets)

InitBudgets ==
    /\ all_transactions \in BudgetLedgers
    /\ transactions_file = to_csv(all_transactions)
    /\ rules_file = NoFile
    /\ rules = load_rules(rules_file)
    /\ auto_rules = SampleAutoRules
    /\ uploaded_file = NoUpload
    /\ recat_button = FALSE
    /\ messages = <<>>
    /\ budgets = <<>>
    /\ cat_call = NoCall
    /\ stats_view = NoView

NextBudgets ==
    \/ \E c \in {"Toutes"} \cup StatCategories : \E a \in BudgetAmounts : SetBudget(c, a)
    \/ \E i \in 1..MaxBudgets : DeleteBudget(i)
    \/ \E m \in {AllMonths} \cup {SubSeq(d, 1, 7) : d \in StatDates} : Dashboard(m)

SpecBudgets == InitBudgets /\ [][NextBudgets]_vars

\* C13: the dashboard's budget alerts never fail on a division: a budget
\* limit of 0 on a category that has expenses gives a percentage of 0 and
\* the call returns.
C13_NoDivisionByZero == stats_view.shown => ~stats_view.alerts.raised

\* ------------------------------------------------------------------------
\* Properties of the statistics (SpecStats)
\* ------------------------------------------------------------------------
\* the rows of the ledger that the shown period selects
InPeriod == {i \in DOMAIN all_transactions :
                \/ stats_view.month = AllMonths
                \/ all_transactions[i].dateOp_str = Some(stats_view.month)}

\* the rows of the period with an amount of the given sign (-1 or 1), among
\* the internal movements or among the others
Rows(sign, internal) ==
    {i \in InPeriod :
        /\ (all_transactions[i].autoCategory = "Mouvement interne") = internal
        /\ all_transactions[i].amount # NaN
        /\ all_transactions[i].amount[1] * sign > 0}

RECURSIVE SumAbs(_)
\* the sum of the absolute amounts of a set of ledger rows
SumAbs(I) ==
    IF I = {} THEN 0
    ELSE Abs(all_transactions[CHOOSE i \in I : TRUE].amount[1])
         + SumAbs(I \ {CHOOSE i \in I : TRUE})

\* C9: the stats shown for a period leave the internal movements out of
\* income and expenses: total_expenses is the sum of the absolute negative
\* amounts that are not internal, total_income the sum of the positive ones,
\* balance their difference; savings_in is the sum of the absolute negative
\* internal amounts, savings_out the sum of the positive ones, net_savings
\* their difference.
C9_StatsExcludeInternal ==
    stats_view.shown =>
        /\ stats_view.stats.total_expenses = SumAbs(Rows(-1, FALSE))
        /\ stats_view.stats.total_income = SumAbs(Rows(1, FALSE))
        /\ stats_view.stats.balance = SumAbs(Rows(1, FALSE)) - SumAbs(Rows(-1, FALSE))
        /\ stats_view.stats.savings_in = SumAbs(Rows(-1, TRUE))
        /\ stats_view.stats.savings_out = SumAbs(Rows(1, TRUE))
        /\ stats_view.stats.net_savings = SumAbs(Rows(-1, TRUE)) - SumAbs(Rows(1, TRUE))

\* the dashboard shows one month of a ledger that holds, in that month, an
\* internal movement and an expense, and a row of another month
C9_Witness ==
    /\ stats_view.shown
    /\ stats_view.month # AllMonths
    /\ stats_view.stats.savings_in > 0
    /\ stats_view.stats.total_expenses > 0
    /\ InPeriod # DOMAIN all_transactions

====
